---- MODULE Spec2Model ----
(***************************************************************************)
(* Export pipeline of marp-vscode: doExport (commands/export), the work    *)
(* files of marp-cli.ts (createWorkFile, createConfigFile, runMarpCli) and *)
(* the theme staging of option.ts (marpCoreOptionForCLI).                  *)
(*                                                                         *)
(* JavaScript runs one task at a time: an action of this module is the     *)
(* code that runs between two suspension points (await).  What the file    *)
(* system, the theme loader, the proxy server and the renderer answer is   *)
(* drawn with \E.                                                          *)
(***************************************************************************)
EXTENDS FiniteSets, Integers, Sequences, TLC

\* ---------------------------------------------------------------- bounds
MaxThemes == 2      \* theme references configured for one export
MaxEdits  == 1      \* edits the user makes to the document during an export
NumCalls  == 2      \* runMarpCli calls that may be in flight together
MaxPreviewCalls == 3 \* marpCoreOptionForPreview calls followed

Themes == 1..MaxThemes
Calls  == 1..NumCalls

\* ---------------------------------------------------------------- values
\* JavaScript's undefined (a variable of process.env that is not set).
Unset == "(not set)"

\* Values CHROME_PATH may have before any export runs.
EnvValues == {Unset, "/usr/bin/chrome"}

\* Values of the setting markdown.marp.chromePath ("" is its default).
ChromePathSettings == {"", "/opt/chrome"}

Schemes == {"file", "untitled", "vscode-vfs"}

\* Scheme of the workspace folder of the document, "none" without a folder.
WorkspaceKinds == {"none", "file", "vscode-vfs"}

OutputExts == {"html", "pdf", "pptx", "png", "jpg", "jpeg"}

\* The extensions one export is followed through: one that needs no browser
\* and one that does.
ExportExts == {"html", "pdf"}

Ports == {8192}

\* A path is <<place, n>>; n tells the temporary theme files apart.
DocPath        == <<"document", 0>>
SameDirTmpPath == <<"dirname(document)/.marp-vscode-tmp", 0>>
WorkspaceDirTmpPath == <<"workspace/.marp-vscode-tmp", 0>>
OsTmpPath      == <<"tmpdir/.marp-vscode-tmp", 0>>
ConfPath       == <<"tmpdir/.marp-vscode-cli-conf", 0>>
DocUriPath     == <<"document.uri.path", 0>>
OutputPath     == <<"uri.fsPath", 0>>
ThemeTmpPath(i)   == <<"tmpdir/.marp-vscode-cli-theme", i>>
ThemeLocalPath(i) == <<"theme file", i>>

DocTmpPaths == {SameDirTmpPath, WorkspaceDirTmpPath, OsTmpPath}
TmpPaths    == DocTmpPaths \cup {ConfPath} \cup {ThemeTmpPath(i) : i \in Themes}

NoWorkFile == [path |-> <<"", 0>>, cleanup |-> <<"", 0>>]

VARIABLES
    pc,            \* where doExport is
    result,        \* how doExport ended: "pending", "resolved", "rejected"
    doc,           \* the TextDocument: scheme, isDirty, text, workspace
    ext,           \* extension of the output uri
    proxyServer,   \* port of the proxy server of this export, 0 if none
    proxyCalls,    \* createWorkspaceProxyServer calls made
    disposeCalls,  \* proxyServer.dispose() calls made
    input,         \* WorkFile returned by createWorkFile
    text,          \* createWorkFile: the text read by doc.getText()
    atCall,        \* the document as it was when createWorkFile was called
    attempts,      \* createWorkFile: the writes tried, in order
    conf,          \* WorkFile returned by createConfigFile
    themeN,        \* number of theme promises themes.loadStyles returned
    themeSt,       \* per theme: where its promise chain is
    themeFile,     \* per theme: the WorkFile its chain resolved with
    fetchFailed,   \* the themes whose load promise rejected
    outOfOrder,    \* a chain settled before the chain of an earlier theme
    cliOpts,       \* what marpCoreOptionForCLI returned
    confWritten,   \* the options serialized into the config file
    fs,            \* paths of the files that exist
    fileText,      \* text of the document files
    pendingUnlink, \* unlink calls in flight
    unlinked,      \* paths an unlink removed
    unlinkFailed,  \* paths whose unlink failed
    cleanupCalls,  \* per WorkFile: how often its cleanup was invoked
    env,           \* process.env.CHROME_PATH
    platform,      \* process.platform
    cliPc,         \* per runMarpCli call: where it is
    cliSaved,      \* per call: the CHROME_PATH it read at line 86
    cliEnvBefore,  \* per call: CHROME_PATH when the call was made
    cliEnvAfter,   \* per call: CHROME_PATH when the call settled
    cliResult,     \* per call: how it settled
    cliOutcome,    \* per call: what the renderer answered
    cliArgv,       \* per call: the arguments runMarpCli was called with
    invoked,       \* per call: what marpCli was called with
    envFirst,      \* CHROME_PATH before the first runMarpCli call
    overlapped,    \* a call was made while another was in flight
    errLog,        \* what console.error was given
    events,        \* what doExport did, in order
    edits,         \* edits made so far
    cachedPreviewOption, \* the module variable of that name
    configuration, \* the settings marpConfiguration() reads
    computedFrom,  \* settings and baseOption.breaks at the first call
                   \* since the cache was last cleared
    lastInputs,    \* settings and baseOption.breaks at the latest call
    previewReturned, \* what each of these calls returned
    beforeClear,   \* the cache as it was when it was last cleared
    previewCalls   \* marpCoreOptionForPreview calls made so far

vars == <<pc, result, doc, ext, proxyServer, proxyCalls, disposeCalls, input,
          text, atCall, attempts, conf, themeN, themeSt, themeFile,
          fetchFailed, outOfOrder, cliOpts,
          confWritten, fs, fileText, pendingUnlink, unlinked, unlinkFailed,
          cleanupCalls, env, platform, cliPc, cliSaved, cliEnvBefore, cliEnvAfter,
          cliResult, cliOutcome, cliArgv, invoked, envFirst, overlapped,
          errLog, events, edits, cachedPreviewOption, configuration,
          computedFrom, lastInputs, previewReturned, beforeClear,
          previewCalls>>

previewVars == <<cachedPreviewOption, configuration, computedFrom, lastInputs,
                 previewReturned, beforeClear, previewCalls>>
exportVars == <<pc, result, doc, edits, ext, proxyServer, proxyCalls,
                disposeCalls, input, text, atCall, attempts, themeN, themeSt,
                themeFile, fetchFailed, outOfOrder, conf, cliOpts, confWritten,
                fs, fileText, pendingUnlink, unlinked, unlinkFailed,
                cleanupCalls, errLog, events>>
docVars   == <<doc, edits>>
proxyVars == <<proxyServer, proxyCalls, disposeCalls>>
wfVars    == <<input, text, atCall, attempts>>
themeVars == <<themeN, themeSt, themeFile, fetchFailed, outOfOrder>>
confVars  == <<conf, cliOpts, confWritten>>
fileVars  == <<fs, fileText>>
unlinkVars == <<pendingUnlink, unlinked, unlinkFailed>>
cliVars   == <<env, platform, cliPc, cliSaved, cliEnvBefore, cliEnvAfter, cliResult,
               cliOutcome, cliArgv, invoked, envFirst, overlapped>>


\* ------------------------------------------------------------- helpers
NoPath == <<"", 0>>

InputId    == <<"input", 0>>
ConfId     == <<"conf", 0>>
ThemeId(i) == <<"theme", i>>
WorkFileIds == {InputId, ConfId} \cup {ThemeId(i) : i \in Themes}

\* A WorkFile is its path and, for cleanup, the path its closure unlinks
\* (NoPath when cleanup is () => Promise.resolve()).
WorkFile(p, target) == [path |-> p, cleanup |-> target]

Bump(f, ids) == [w \in DOMAIN f |-> IF w \in ids THEN f[w] + 1 ELSE f[w]]

\* ------------------------------------------------------- createWorkFile
UsesRealFile(d) == d.scheme = "file" /\ ~d.isDirty

\* (a closure that captured the first candidate instead of its argument)
createCleanupOfFirstCandidate(target) == SameDirTmpPath

createCleanup(target) == target

\* (the document itself handed to unlink, like a temporary file)
RealFileWorkFileUnlinked == WorkFile(DocPath, DocPath)

RealFileWorkFile == WorkFile(DocPath, NoPath)

\* (the scheme of the workspace folder not looked at)
HasAnyWorkspace(d) == d.workspace # "none"

HasFileWorkspace(d) == d.workspace = "file"

\* The write to try after the one at `place` failed; "throw" after the last.
NextAttempt(place, d) ==
    CASE place = "sameDir" ->
            IF HasFileWorkspace(d) THEN "writeWorkspaceDir" ELSE "writeOsTmp"
      [] place = "workspaceDir" -> "writeOsTmp"
      [] place = "osTmp" -> "throw"

\* ------------------------------------------------------------- doExport
chromiumRequiredExtensions == {"pdf", "pptx", "png", "jpg", "jpeg"}

\* (the scheme of the document not looked at)
shouldProvideForEveryScheme(e, d) == e \in chromiumRequiredExtensions

shouldProvideWorkspaceProxyServer(e, d) ==
    IF e \in chromiumRequiredExtensions
    THEN d.scheme \notin {"file", "untitled"}
    ELSE FALSE

\* (dispose after the try statement instead of in its finally: skipped
\* when createWorkFile throws)
DisposeProxyAfterTry(n) ==
    IF proxyServer # 0 /\ pc # "writeOsTmp" THEN n + 1 ELSE n

\* proxyServer?.dispose() of the outermost finally.
DisposeProxy(n) == IF proxyServer # 0 THEN n + 1 ELSE n

\* createConfigFile up to its first suspension: marpCoreOptionForCLI calls
\* themes.loadStyles and awaits Promise.all of the chained promises.
createConfigFile_enter ==
    /\ themeSt' = [i \in Themes |-> IF i <= themeN THEN "loading" ELSE "none"]
    /\ UNCHANGED <<themeN, themeFile, fetchFailed, outOfOrder, confVars>>

\* doExport, line 90 onward: createWorkFile up to its first suspension, and
\* when it returns at once (line 18) createConfigFile behind it.
createWorkFile_enter(ev) ==
    /\ atCall' = doc
    /\ attempts' = <<>>
    /\ IF UsesRealFile(doc)
       THEN /\ input' = RealFileWorkFile
            /\ text' = text
            /\ pc' = "awaitThemes"
            /\ events' = events \o ev \o <<"workFile", "createConfigFile">>
            /\ createConfigFile_enter
       ELSE /\ text' = doc.text
            /\ input' = input
            /\ pc' = "writeSameDir"
            /\ events' = events \o ev
            /\ UNCHANGED <<themeVars, confVars>>

DoExportStart ==
    /\ pc = "start"
    /\ IF shouldProvideWorkspaceProxyServer(ext, doc) /\ doc.workspace # "none"
       THEN /\ pc' = "awaitProxy"
            /\ proxyCalls' = proxyCalls + 1
            /\ events' = Append(events, "createProxy")
            /\ UNCHANGED <<wfVars, themeVars, confVars>>
       ELSE /\ createWorkFile_enter(<<>>)
            /\ UNCHANGED proxyCalls
    /\ UNCHANGED <<result, docVars, ext, previewVars, proxyServer, disposeCalls, fileVars,
                   unlinkVars, cleanupCalls, cliVars, errLog>>

\* createWorkspaceProxyServer resolved with a server listening on `port`.
ProxyCreated ==
    /\ pc = "awaitProxy"
    /\ \E port \in Ports : proxyServer' = port
    /\ createWorkFile_enter(<<"proxyCreated">>)
    /\ UNCHANGED <<result, docVars, ext, previewVars, proxyCalls, disposeCalls, fileVars,
                   unlinkVars, cleanupCalls, cliVars, errLog>>

\* (the rejection caught, the export going on without proxy server)
ProxyFailedCaught ==
    /\ pc = "awaitProxy"
    /\ createWorkFile_enter(<<"proxyFailed">>)
    /\ UNCHANGED <<result, docVars, ext, previewVars, proxyVars, fileVars, unlinkVars,
                   cleanupCalls, cliVars, errLog>>

\* createWorkspaceProxyServer rejected: line 80 is outside every try.
ProxyFailed ==
    /\ pc = "awaitProxy"
    /\ pc' = "done"
    /\ result' = "rejected"
    /\ events' = Append(events, "proxyFailed")
    /\ UNCHANGED <<docVars, ext, previewVars, proxyVars, wfVars, themeVars, confVars,
                   fileVars, unlinkVars, cleanupCalls, cliVars, errLog>>

\* One writeFile of createWorkFile (lines 29, 43, 56) has answered.
WriteDocTmp(at, place, path, ok) ==
    /\ pc = at
    /\ attempts' = Append(attempts, [place |-> place, ok |-> ok])
    /\ UNCHANGED <<docVars, ext, previewVars, proxyServer, proxyCalls, text, atCall,
                   unlinkVars, cleanupCalls, cliVars, errLog>>
    /\ IF ok
       THEN /\ fs' = fs \cup {path}
            /\ fileText' = [fileText EXCEPT ![path] = text]
            /\ input' = WorkFile(path, createCleanup(path))
            /\ pc' = "awaitThemes"
            /\ events' = events \o <<"workFile", "createConfigFile">>
            /\ createConfigFile_enter
            /\ UNCHANGED <<result, disposeCalls>>
       ELSE /\ UNCHANGED <<fileVars, input, themeVars, confVars>>
            /\ IF NextAttempt(place, doc) = "throw"
               THEN /\ pc' = "done"
                    /\ result' = "rejected"
                    /\ disposeCalls' = DisposeProxy(disposeCalls)
                    /\ events' = events \o
                         (IF proxyServer # 0 THEN <<"dispose">> ELSE <<>>)
               ELSE /\ pc' = NextAttempt(place, doc)
                    /\ UNCHANGED <<result, disposeCalls, events>>

WriteSameDir ==
    \E ok \in BOOLEAN : WriteDocTmp("writeSameDir", "sameDir", SameDirTmpPath, ok)

WriteWorkspaceDir ==
    \E ok \in BOOLEAN :
        WriteDocTmp("writeWorkspaceDir", "workspaceDir", WorkspaceDirTmpPath, ok)

WriteOsTmp ==
    \E ok \in BOOLEAN : WriteDocTmp("writeOsTmp", "osTmp", OsTmpPath, ok)

\* ------------------------------------------------ marpCoreOptionForCLI
ThemeTypes == {"File", "Remote"}

\* (then() without its second argument: the rejection goes on to Promise.all)
OnLoadRejectedUnhandled == "rejected"

\* What the chain of a theme becomes when its load promise rejects: the
\* second argument of then() logs the error and yields undefined.
OnLoadRejected == "dropped"

\* The chain of theme i settles while the chain of an earlier theme has not.
SettlesEarly(i) ==
    outOfOrder \/ \E j \in 1..(i - 1) : themeSt[j] \in {"loading", "writing"}

\* The load promise of theme i resolved with a theme of type `type`.
ThemeLoaded(i) ==
    /\ themeSt[i] = "loading"
    /\ \E type \in ThemeTypes :
         IF type = "File"
         THEN /\ themeSt' = [themeSt EXCEPT ![i] = "fulfilled"]
              /\ themeFile' = [themeFile EXCEPT
                                 ![i] = WorkFile(ThemeLocalPath(i), NoPath)]
              /\ outOfOrder' = SettlesEarly(i)
         ELSE /\ themeSt' = [themeSt EXCEPT ![i] = "writing"]
              /\ UNCHANGED <<themeFile, outOfOrder>>
    /\ UNCHANGED <<pc, result, docVars, ext, previewVars, proxyVars, wfVars, themeN,
                   fetchFailed, confVars, fileVars, unlinkVars, cleanupCalls, cliVars,
                   errLog, events>>

\* The load promise of theme i rejected.
ThemeLoadRejected(i) ==
    /\ themeSt[i] = "loading"
    /\ themeSt' = [themeSt EXCEPT ![i] = OnLoadRejected]
    /\ fetchFailed' = fetchFailed \cup {i}
    /\ outOfOrder' = SettlesEarly(i)
    /\ errLog' = IF OnLoadRejected = "dropped"
                 THEN Append(errLog, <<"theme", i>>) ELSE errLog
    /\ UNCHANGED <<pc, result, docVars, ext, previewVars, proxyVars, wfVars, themeN,
                   themeFile, confVars, fileVars, unlinkVars, cleanupCalls,
                   cliVars, events>>

\* The writeFile of line 354 answered; a failure rejects the chain, for it
\* is thrown inside the first argument of then().
ThemeWritten(i) ==
    /\ themeSt[i] = "writing"
    /\ \E ok \in BOOLEAN :
         IF ok
         THEN /\ fs' = fs \cup {ThemeTmpPath(i)}
              /\ themeSt' = [themeSt EXCEPT ![i] = "fulfilled"]
              /\ themeFile' = [themeFile EXCEPT
                        ![i] = WorkFile(ThemeTmpPath(i), ThemeTmpPath(i))]
         ELSE /\ themeSt' = [themeSt EXCEPT ![i] = "rejected"]
              /\ UNCHANGED <<fs, themeFile>>
    /\ outOfOrder' = SettlesEarly(i)
    /\ UNCHANGED <<pc, result, docVars, ext, previewVars, proxyVars, wfVars, themeN,
                   fetchFailed, confVars, fileText, unlinkVars, cleanupCalls, cliVars,
                   errLog, events>>

RECURSIVE ThemeFilesFrom(_)
\* .filter(w => !!w) over the results of Promise.all, which keeps the order
\* of the promises: the WorkFiles of the themes i..themeN that resolved.
ThemeFilesFrom(i) ==
    IF i > themeN THEN <<>>
    ELSE (IF themeSt[i] = "fulfilled" THEN <<themeFile[i]>> ELSE <<>>)
         \o ThemeFilesFrom(i + 1)

\* (the paths collected back to front)
PathsOfReversed(ws) == [k \in 1..Len(ws) |-> ws[Len(ws) + 1 - k].path]

\* Line 364: themeFiles.map((w) => w.path)
PathsOf(ws) == [k \in 1..Len(ws) |-> ws[k].path]

\* The object marpCoreOptionForCLI returns (lines 317-333, 364-367).
BaseOpts(themeFiles) ==
    [allowLocalFiles |-> TRUE,
     themeSet |-> PathsOf(themeFiles),
     themeFiles |-> themeFiles]

NoOpts == [allowLocalFiles |-> FALSE, themeSet |-> <<>>, themeFiles |-> <<>>]

PromiseAllRejected == \E i \in 1..themeN : themeSt[i] = "rejected"

\* (the first settled chain taken for all of them)
PromiseAnySettled ==
    themeN > 0 => \E i \in 1..themeN : themeSt[i] \in {"fulfilled", "dropped"}

PromiseAllResolved == \A i \in 1..themeN : themeSt[i] \in {"fulfilled", "dropped"}

\* --------------------------------------------------- cleanup of WorkFiles
\* (a cleanup that unlinks the config file and forgets the themes)
ConfCleanupTargetsConfOnly(opts) == {ConfPath}

\* conf.cleanup(), lines 71-76: the unlinks it starts ...
ConfCleanupTargets(opts) ==
    {ConfPath} \cup
    ({opts.themeFiles[k].cleanup : k \in 1..Len(opts.themeFiles)} \ {NoPath})

\* ... and the WorkFiles whose cleanup it invokes.
ConfCleanupIds(opts) ==
    {ConfId} \cup {ThemeId(opts.themeFiles[k].path[2]) : k \in 1..Len(opts.themeFiles)}

\* input.cleanup()
InputCleanupTargets(w) == {w.cleanup} \ {NoPath}

\* The rest of doExport once the await of line 94 or of line 99 is over:
\* its finally blocks and its catch run without another suspension.
\*   confDone: createConfigFile had returned (conf.cleanup() of line 104)
\*   ok:       marpCli resolved (env.openExternal of line 102)
Finish(confDone, ok) ==
    LET evs == (IF ok THEN <<"openExternal">> ELSE <<>>)
               \o (IF confDone THEN <<"conf.cleanup">> ELSE <<>>)
               \o (IF ok THEN <<>> ELSE <<"showErrorMessage">>)
               \o <<"input.cleanup">>
               \o (IF proxyServer # 0 THEN <<"dispose">> ELSE <<>>)
        ids == (IF confDone THEN ConfCleanupIds(cliOpts) ELSE {}) \cup {InputId}
        targets == (IF confDone THEN ConfCleanupTargets(cliOpts) ELSE {})
                   \cup InputCleanupTargets(input)
    IN  /\ pc' = "done"
        /\ result' = "resolved"
        /\ events' = events \o evs
        /\ cleanupCalls' = Bump(cleanupCalls, ids)
        /\ pendingUnlink' = pendingUnlink \cup targets
        /\ disposeCalls' = DisposeProxy(disposeCalls)
        /\ UNCHANGED <<docVars, ext, previewVars, proxyServer, proxyCalls, wfVars,
                       unlinked, unlinkFailed>>

\* ------------------------------------------------------------ runMarpCli
Platforms == {"linux", "darwin", "win32"}
ExitCodes == {0, 1, 3}
CLIErrorCodes == {"NOT_FOUND_CHROMIUM", "GENERAL_ERROR"}

\* What an error is known by: its class, the errorCode of a CLIError, the
\* exit code and the installation hint a MarpCLIError message carries.
Err(class, errorCode, exitCode, hint) ==
    [class |-> class, errorCode |-> errorCode, exitCode |-> exitCode,
     hint |-> hint]

NoError == Err("", "", 0, "")

\* What awaiting marpCli(argv) may give: an exit code or a thrown error.
Outcomes ==
    [thrown : {FALSE}, exitCode : ExitCodes, error : {NoError}] \cup
    [thrown : {TRUE}, exitCode : {0},
     error : {Err("CLIError", c, 0, "") : c \in CLIErrorCodes}
             \cup {Err("Error", "", 0, "")}]

NoResult == [status |-> "none", error |-> NoError]

NoOutcome == [thrown |-> FALSE, exitCode |-> -1, error |-> NoError]

\* The values a call passes: a string, an array of strings, an options
\* object with its baseUrl. A string is a pair like a path.
Flag(f) == <<f, 0>>
NoBaseUrl == [port |-> 0, path |-> <<"", 0>>]
Str(t) == [kind |-> "string", items |-> <<t>>, baseUrl |-> NoBaseUrl]
Arr(ts) == [kind |-> "array", items |-> ts, baseUrl |-> NoBaseUrl]
Obj(u) == [kind |-> "object", items |-> <<>>, baseUrl |-> u]

\* Line 94: marpCli(argv), one argument, no options.
marpCli(argv) == [called |-> TRUE, argv |-> argv, baseUrl |-> NoBaseUrl]

NotInvoked == [called |-> FALSE, argv |-> <<>>, baseUrl |-> NoBaseUrl]

\* a || b on strings and undefined
JsOr(a, b) == IF a \in {"", Unset} THEN b ELSE a

\* process.env.X = v: Node converts the value assigned to a string, and
\* undefined becomes the string "undefined".
EnvAssign(v) == IF v = Unset THEN "undefined" ELSE v

InFlight(c) == cliPc[c] \in {"import", "marpCli"}

\* Lines 80-85: the rest parameter argv holds every argument of the call;
\* the call logs it and awaits the import.
runMarpCli_enter(c, args) ==
    /\ cliArgv' = [cliArgv EXCEPT ![c] = args]
    /\ cliPc' = [cliPc EXCEPT ![c] = "import"]
    /\ cliEnvBefore' = [cliEnvBefore EXCEPT ![c] = env]
    /\ IF \E o \in Calls : InFlight(o)
       THEN /\ overlapped' = TRUE
            /\ UNCHANGED envFirst
       ELSE /\ overlapped' = FALSE
            /\ envFirst' = env
    /\ UNCHANGED <<env, platform, cliSaved, cliEnvAfter, cliResult, cliOutcome,
                   invoked>>

\* Lines 86-94: read CHROME_PATH, override it, start the renderer.
CliImported(c) ==
    /\ cliPc[c] = "import"
    /\ cliSaved' = [cliSaved EXCEPT ![c] = env]
    /\ \E chromePath \in ChromePathSettings :
         env' = EnvAssign(JsOr(chromePath, env))
    /\ cliPc' = [cliPc EXCEPT ![c] = "marpCli"]
    /\ invoked' = [invoked EXCEPT ![c] = marpCli(cliArgv[c])]
    /\ UNCHANGED <<pc, result, docVars, ext, previewVars, proxyVars, wfVars, themeVars,
                   confVars, fileVars, unlinkVars, cleanupCalls, platform,
                   cliEnvBefore, cliEnvAfter, cliResult, cliOutcome, cliArgv,
                   envFirst, overlapped, errLog, events>>

\* (the exit code not tested after the finally)
SettleWithoutExitCodeTest(o, plat) ==
    IF o.thrown
    THEN IF o.error.class = "CLIError" /\ o.error.errorCode = "NOT_FOUND_CHROMIUM"
         THEN [status |-> "rejected",
               error |-> Err("MarpCLIError", "", 0,
                             IF plat = "linux"
                             THEN "Google Chrome or Chromium"
                             ELSE "Google Chrome")]
         ELSE [status |-> "rejected", error |-> o.error]
    ELSE [status |-> "resolved", error |-> NoError]

\* (Chromium named on every platform)
SettleHintOnEveryPlatform(o, plat) ==
    IF o.thrown
    THEN IF o.error.class = "CLIError" /\ o.error.errorCode = "NOT_FOUND_CHROMIUM"
         THEN [status |-> "rejected",
               error |-> Err("MarpCLIError", "", 0, "Google Chrome or Chromium")]
         ELSE [status |-> "rejected", error |-> o.error]
    ELSE IF o.exitCode # 0
         THEN [status |-> "rejected",
               error |-> Err("MarpCLIError", "", o.exitCode, "")]
         ELSE [status |-> "resolved", error |-> NoError]

\* Lines 95-121: what the call settles with.
Settle(o, plat) ==
    IF o.thrown
    THEN IF o.error.class = "CLIError" /\ o.error.errorCode = "NOT_FOUND_CHROMIUM"
         THEN [status |-> "rejected",
               error |-> Err("MarpCLIError", "", 0,
                             IF plat = "linux"
                             THEN "Google Chrome or Chromium"
                             ELSE "Google Chrome")]
         ELSE [status |-> "rejected", error |-> o.error]
    ELSE IF o.exitCode # 0
         THEN [status |-> "rejected",
               error |-> Err("MarpCLIError", "", o.exitCode, "")]
         ELSE [status |-> "resolved", error |-> NoError]

\* The value the finally of line 114 assigns to process.env.CHROME_PATH.
Restored(c) == EnvAssign(cliSaved[c])

\* The renderer answered with one of `outs`: catch, finally and the exit
\* code test.
CliSettledWith(c, outs) ==
    /\ cliPc[c] = "marpCli"
    /\ \E o \in outs :
         /\ cliResult' = [cliResult EXCEPT ![c] = Settle(o, platform)]
         /\ cliOutcome' = [cliOutcome EXCEPT ![c] = o]
         /\ errLog' = IF o.thrown THEN Append(errLog, <<"cli", c>>) ELSE errLog
    /\ env' = Restored(c)
    /\ cliEnvAfter' = [cliEnvAfter EXCEPT ![c] = env']
    /\ cliPc' = [cliPc EXCEPT ![c] = "settled"]
    /\ UNCHANGED <<pc, result, docVars, ext, previewVars, proxyVars, wfVars, themeVars,
                   confVars, fileVars, unlinkVars, cleanupCalls, platform,
                   cliSaved, cliEnvBefore, cliArgv, invoked, envFirst,
                   overlapped, events>>

CliSettled(c) == CliSettledWith(c, Outcomes)

\* The renderer outcomes one export is followed through: doExport tells
\* apart a resolved call, a MarpCLIError and any other error.
ExportOutcomes ==
    {o \in Outcomes : \/ ~o.thrown /\ o.exitCode \in {0, 3}
                      \/ o.thrown /\ o.error.class = "Error"}

ExportCliSettled == CliSettledWith(1, ExportOutcomes)

\* -------------------------------------------- createConfigFile, doExport
\* Promise.all resolved: lines 362-367, then the writeFile of line 67.
ThemesResolved ==
    /\ pc = "awaitThemes"
    /\ PromiseAllResolved
    /\ cliOpts' = BaseOpts(ThemeFilesFrom(1))
    /\ pc' = "writeConf"
    /\ events' = Append(events, "themesSettled")
    /\ UNCHANGED <<result, docVars, ext, previewVars, proxyVars, wfVars, themeVars, conf,
                   confWritten, fileVars, unlinkVars, cleanupCalls, cliVars,
                   errLog>>

\* Promise.all rejected with the first rejection: marpCoreOptionForCLI and
\* createConfigFile reject, doExport catches at line 106.
ThemesRejected ==
    /\ pc = "awaitThemes"
    /\ PromiseAllRejected
    /\ Finish(FALSE, FALSE)
    /\ UNCHANGED <<themeVars, confVars, fileVars, cliVars, errLog>>

\* Line 81: the base URL of this export, undefined without proxy server.
baseUrl ==
    IF proxyServer # 0
    THEN [port |-> proxyServer, path |-> DocUriPath]
    ELSE NoBaseUrl

\* The writeFile of the config file answered: lines 94-101.
WriteConf ==
    /\ pc = "writeConf"
    /\ \E ok \in BOOLEAN :
         IF ok
         THEN /\ fs' = fs \cup {ConfPath}
              /\ confWritten' = cliOpts
              /\ conf' = WorkFile(ConfPath, ConfPath)
              /\ pc' = "awaitCli"
              /\ events' = events \o <<"confWritten", "marpCli">>
              /\ runMarpCli_enter(1,
                     <<Arr(<<Flag("-c"), ConfPath, input.path, Flag("-o"),
                             OutputPath>>),
                       Obj(baseUrl)>>)
              /\ UNCHANGED <<result, docVars, ext, previewVars, proxyVars, wfVars,
                             themeVars, cliOpts, fileText, unlinkVars,
                             cleanupCalls, errLog>>
         ELSE /\ Finish(FALSE, FALSE)
              /\ UNCHANGED <<themeVars, confVars, fileVars, cliVars, errLog>>

\* (the viewer opened whatever runMarpCli settled with)
DoExportAfterCliAlwaysOpens ==
    /\ pc = "awaitCli"
    /\ cliPc[1] = "settled"
    /\ Finish(TRUE, TRUE)
    /\ UNCHANGED <<themeVars, confVars, fileVars, cliVars, errLog>>

\* runMarpCli settled: lines 102-119.
DoExportAfterCli ==
    /\ pc = "awaitCli"
    /\ cliPc[1] = "settled"
    /\ Finish(TRUE, cliResult[1].status = "resolved")
    /\ UNCHANGED <<themeVars, confVars, fileVars, cliVars, errLog>>

\* ------------------------------------------------------------ environment
\* An unlink started by a cleanup answered.
Unlink(p) ==
    /\ p \in pendingUnlink
    /\ pendingUnlink' = pendingUnlink \ {p}
    /\ \E ok \in BOOLEAN :
         IF ok /\ p \in fs
         THEN /\ fs' = fs \ {p}
              /\ unlinked' = unlinked \cup {p}
              /\ UNCHANGED unlinkFailed
         ELSE /\ unlinkFailed' = unlinkFailed \cup {p}
              /\ UNCHANGED <<fs, unlinked>>
    /\ UNCHANGED <<pc, result, docVars, ext, previewVars, proxyVars, wfVars, themeVars,
                   confVars, fileText, cleanupCalls, cliVars, errLog, events>>

\* The user edits the document while doExport is suspended.
EditDocument ==
    /\ pc \in {"awaitProxy", "writeSameDir", "writeWorkspaceDir", "writeOsTmp",
               "awaitThemes", "writeConf", "awaitCli"}
    /\ edits < MaxEdits
    /\ edits' = edits + 1
    /\ doc' = [doc EXCEPT !.text = @ + 1, !.isDirty = TRUE]
    /\ UNCHANGED <<pc, result, ext, previewVars, proxyVars, wfVars, themeVars, confVars,
                   fileVars, unlinkVars, cleanupCalls, cliVars, errLog, events>>

\* ------------------------------------------- marpCoreOptionForPreview
BreaksSettings == {"off", "on", "inherit"}

\* The settings marpCoreOptionForPreview reads through marpConfiguration().
Configurations ==
    [enableHtml : BOOLEAN, enableExtensionAttrs : BOOLEAN, breaks : BreaksSettings]

DefaultConfiguration ==
    [enableHtml |-> FALSE, enableExtensionAttrs |-> FALSE, breaks |-> "on"]

\* setting || undefined
OrUndefined(b) == IF b THEN "true" ELSE "undefined"

\* Lines 288-297.
breaks(settings, inheritedValue) ==
    CASE settings.breaks = "off" -> FALSE
      [] settings.breaks = "inherit" -> inheritedValue
      [] OTHER -> TRUE

\* cachedPreviewOption undefined
NoOption == [html |-> "", extensionAttrs |-> "", breaks |-> FALSE]

\* Lines 303-310: the options built from the settings and !!baseOption.breaks.
PreviewOption(settings, baseBreaks) ==
    [html |-> OrUndefined(settings.enableHtml),
     extensionAttrs |-> OrUndefined(settings.enableExtensionAttrs),
     breaks |-> breaks(settings, baseBreaks)]

NoInputs == [configuration |-> DefaultConfiguration, breaks |-> FALSE, given |-> FALSE]

Inputs(settings, baseBreaks) ==
    [configuration |-> settings, breaks |-> baseBreaks, given |-> TRUE]

\* (the cache never looked at)
CacheAlwaysEmpty(cached) == TRUE

\* Line 302: !cachedPreviewOption
CacheEmpty(cached) == cached = NoOption

\* Lines 299-314.
marpCoreOptionForPreview(baseBreaks) ==
    /\ previewCalls < MaxPreviewCalls
    /\ previewCalls' = previewCalls + 1
    /\ cachedPreviewOption' =
           IF CacheEmpty(cachedPreviewOption)
           THEN PreviewOption(configuration, baseBreaks)
           ELSE cachedPreviewOption
    /\ previewReturned' = Append(previewReturned, cachedPreviewOption')
    /\ computedFrom' = IF previewReturned = <<>>
                       THEN Inputs(configuration, baseBreaks)
                       ELSE computedFrom
    /\ lastInputs' = Inputs(configuration, baseBreaks)
    /\ UNCHANGED <<configuration, beforeClear, exportVars, cliVars>>

\* Lines 370-372.
clearMarpCoreOptionCache ==
    /\ cachedPreviewOption' = NoOption
    /\ beforeClear' = cachedPreviewOption
    /\ previewReturned' = <<>>
    /\ computedFrom' = NoInputs
    /\ lastInputs' = NoInputs
    /\ UNCHANGED <<configuration, previewCalls, exportVars, cliVars>>

\* The user changes the settings.
ConfigurationChanged ==
    /\ \E settings \in Configurations \ {configuration} :
         configuration' = settings
    /\ UNCHANGED <<cachedPreviewOption, computedFrom, lastInputs,
                   previewReturned, beforeClear, previewCalls, exportVars,
                   cliVars>>

\* ---------------------------------------------------------- specification
NoDoc == [scheme |-> "", isDirty |-> FALSE, text |-> 0, workspace |-> ""]

\* What no export and no call has touched yet.
Untouched ==
    /\ result = "pending"
    /\ proxyServer = 0 /\ proxyCalls = 0 /\ disposeCalls = 0
    /\ input = NoWorkFile /\ text = 0 /\ atCall = NoDoc /\ attempts = <<>>
    /\ conf = NoWorkFile
    /\ themeSt = [i \in Themes |-> "none"]
    /\ themeFile = [i \in Themes |-> NoWorkFile]
    /\ fetchFailed = {} /\ outOfOrder = FALSE
    /\ cliOpts = NoOpts /\ confWritten = NoOpts
    /\ fs = IF doc.scheme = "file" THEN {DocPath} ELSE {}
    /\ fileText = [p \in DocTmpPaths \cup {DocPath} |-> IF p = DocPath THEN 0 ELSE -1]
    /\ pendingUnlink = {} /\ unlinked = {} /\ unlinkFailed = {}
    /\ cleanupCalls = [w \in WorkFileIds |-> 0]
    /\ env \in EnvValues
    /\ platform \in Platforms
    /\ cliPc = [c \in Calls |-> "idle"]
    /\ cliSaved = [c \in Calls |-> Unset]
    /\ cliEnvBefore = [c \in Calls |-> Unset]
    /\ cliEnvAfter = [c \in Calls |-> Unset]
    /\ cliResult = [c \in Calls |-> NoResult]
    /\ cliOutcome = [c \in Calls |-> NoOutcome]
    /\ cliArgv = [c \in Calls |-> <<>>]
    /\ invoked = [c \in Calls |-> NotInvoked]
    /\ envFirst = env /\ overlapped = FALSE
    /\ errLog = <<>> /\ events = <<>> /\ edits = 0
    /\ cachedPreviewOption = NoOption
    /\ configuration = DefaultConfiguration
    /\ computedFrom = NoInputs /\ lastInputs = NoInputs
    /\ previewReturned = <<>> /\ beforeClear = NoOption
    /\ previewCalls = 0

\* One doExport(uri, document) is about to run. The platform and CHROME_PATH
\* bear on runMarpCli alone and are varied in SpecCli.
Init ==
    /\ pc = "start"
    /\ \E scheme \in Schemes, isDirty \in BOOLEAN, workspace \in WorkspaceKinds :
         doc = [scheme |-> scheme, isDirty |-> isDirty,
                text |-> IF isDirty THEN 1 ELSE 0, workspace |-> workspace]
    /\ ext \in ExportExts
    /\ themeN \in 0..MaxThemes
    /\ Untouched
    /\ platform = "linux"
    /\ env = Unset

Next ==
    \/ DoExportStart
    \/ ProxyCreated
    \/ ProxyFailed
    \/ WriteSameDir
    \/ WriteWorkspaceDir
    \/ WriteOsTmp
    \/ \E i \in Themes : ThemeLoaded(i)
    \/ \E i \in Themes : ThemeLoadRejected(i)
    \/ \E i \in Themes : ThemeWritten(i)
    \/ ThemesResolved
    \/ ThemesRejected
    \/ WriteConf
    \/ CliImported(1)
    \/ ExportCliSettled
    \/ DoExportAfterCli
    \/ \E p \in TmpPaths \cup {DocPath} : Unlink(p)
    \/ EditDocument

Spec == Init /\ [][Next]_vars

\* --------------------------------------- runMarpCli calls that overlap
\* A caller invokes runMarpCli(...argv); nothing keeps a second call from
\* being made while an earlier one is suspended.
CallRunMarpCli(c) ==
    /\ cliPc[c] = "idle"
    /\ runMarpCli_enter(c, <<Str(Flag("--version"))>>)
    /\ UNCHANGED <<pc, result, docVars, ext, previewVars, proxyVars, wfVars, themeVars,
                   confVars, fileVars, unlinkVars, cleanupCalls, errLog,
                   events>>

InitCli ==
    /\ pc = "none"
    /\ doc = NoDoc
    /\ ext = ""
    /\ themeN = 0
    /\ Untouched

NextCli ==
    \/ \E c \in Calls : CallRunMarpCli(c)
    \/ \E c \in Calls : CliImported(c)
    \/ \E c \in Calls : CliSettled(c)

SpecCli == InitCli /\ [][NextCli]_vars

\* The preview asks for its options, the settings change and the cache is
\* cleared, in any order.
InitPreview ==
    /\ pc = "none"
    /\ doc = NoDoc
    /\ ext = ""
    /\ themeN = 0
    /\ Untouched
    /\ platform = "linux"
    /\ env = Unset

NextPreview ==
    \/ \E baseBreaks \in BOOLEAN : marpCoreOptionForPreview(baseBreaks)
    \/ clearMarpCoreOptionCache
    \/ ConfigurationChanged

SpecPreview == InitPreview /\ [][NextPreview]_vars

\* ================================================================ claims
Range(q) == {q[k] : k \in 1..Len(q)}

DoExportReturned == pc = "done"

\* The WorkFiles this attempt created: the one of the document, the one of
\* the config file and those of the themes staged to a temporary file.
Created(w) ==
    CASE w = InputId -> input # NoWorkFile
      [] w = ConfId  -> conf # NoWorkFile
      [] OTHER -> \E i \in Themes : w = ThemeId(i) /\ themeFile[i].cleanup # NoPath

\* C1: when doExport returns, the cleanup of every WorkFile the attempt
\* created (document, config, each staged theme) has been invoked exactly
\* once, whatever the outcome, also when the config file cannot be written
\* after themes were staged.
C1_EveryWorkFileCleanedOnce ==
    DoExportReturned =>
        \A w \in WorkFileIds : Created(w) => cleanupCalls[w] = 1

\* C2: CHROME_PATH after a runMarpCli call equals CHROME_PATH right before
\* it, whatever it was (a string or not set) and however the call ended.
\* Stated for a call no other call overlaps.
C2_ChromePathRestored ==
    \A c \in Calls :
        (cliPc[c] = "settled" /\ \A o \in Calls \ {c} : cliPc[o] = "idle")
            => cliEnvAfter[c] = cliEnvBefore[c]

\* C3: overlapping runMarpCli calls do not interleave their overrides: at
\* most one call is between its assignment of CHROME_PATH and its restore,
\* and once all the overlapping calls are over CHROME_PATH is what it was
\* before the first of them.
C3_OverridesDoNotInterleave ==
    /\ Cardinality({c \in Calls : cliPc[c] = "marpCli"}) <= 1
    /\ (overlapped /\ \A c \in Calls : ~InFlight(c)) => env = envFirst

\* C4: the proxy server doExport created is disposed exactly once on every
\* exit path, also when createWorkFile throws, and never while the renderer
\* call of the export is still to come or in flight.
C4_ProxyDisposedOnceAfterRenderer ==
    /\ disposeCalls <= 1
    /\ proxyServer = 0 => disposeCalls = 0
    /\ (DoExportReturned /\ proxyServer # 0) => disposeCalls = 1
    /\ disposeCalls = 1 => DoExportReturned /\ ~InFlight(1)

C4_Witness ==
    /\ DoExportReturned /\ proxyServer # 0 /\ disposeCalls = 1
    /\ result = "rejected" /\ input = NoWorkFile

ThemeChainsOver == \A i \in Themes : themeSt[i] \notin {"loading", "writing"}

\* C5: whatever the outcome of the export, once its cleanups have finished
\* and no deletion failed, no temporary file the attempt created is left.
C5_NoTempFileRemains ==
    (DoExportReturned /\ ThemeChainsOver /\ pendingUnlink = {} /\ unlinkFailed = {})
        => fs \cap TmpPaths = {}

\* marpCoreOptionForCLI is over (returned or threw).
ThemeResolutionOver == pc \in {"writeConf", "awaitCli", "done"}

\* Exactly theme f failed to load, and every other theme resolved.
OnlyFetchFailed(f) ==
    /\ f \in 1..themeN
    /\ fetchFailed = {f}
    /\ \A i \in 1..themeN \ {f} : themeSt[i] = "fulfilled"

\* The WorkFiles of the themes 1..themeN without theme f, in their order.
AllBut(f) == [k \in 1..(themeN - 1) |-> themeFile[IF k < f THEN k ELSE k + 1]]

\* C6: when exactly one of the N load promises rejects and the other themes
\* resolve, marpCoreOptionForCLI does not throw, returns the WorkFiles of
\* the N-1 other themes without the failed one, and the failure is logged.
C6_OneFailedFetchDropsOneTheme ==
    \A f \in Themes :
        (ThemeResolutionOver /\ OnlyFetchFailed(f)) =>
            /\ cliOpts # NoOpts
            /\ Len(cliOpts.themeFiles) = themeN - 1
            /\ cliOpts.themeFiles = AllBut(f)
            /\ \A w \in Range(cliOpts.themeFiles) :
                   w.path \notin {ThemeTmpPath(f), ThemeLocalPath(f)}
            /\ <<"theme", f>> \in Range(errLog)

C6_Witness ==
    /\ themeN = 2 /\ OnlyFetchFailed(1) /\ ThemeResolutionOver
    /\ Len(cliOpts.themeFiles) = 1
    /\ cliOpts.themeFiles[1].path = ThemeTmpPath(2)

\* The temporary files the config WorkFile has to delete.
ConfOwnedPaths ==
    {ConfPath} \cup {ThemeTmpPath(i) : i \in {j \in 1..themeN : ThemeTmpPath(j) \in
                                              Range(confWritten.themeSet)}}

\* C7: the cleanup of the config WorkFile starts the deletion of the config
\* file and the cleanup of every resolved theme; each of these deletions is
\* started and runs whether or not another of them fails, so a file is left
\* only when its own deletion failed.
C7_ConfCleanupStartsEveryDeletion ==
    cleanupCalls[ConfId] >= 1 =>
        /\ \A p \in ConfOwnedPaths :
               p \in pendingUnlink \cup unlinked \cup unlinkFailed
        /\ \A p \in ConfOwnedPaths :
               (p \in fs /\ p \notin pendingUnlink) => p \in unlinkFailed
        /\ \A i \in 1..themeN :
               themeSt[i] = "fulfilled" => cleanupCalls[ThemeId(i)] = 1

C7_Witness ==
    /\ cleanupCalls[ConfId] = 1
    /\ ConfPath \in unlinkFailed
    /\ ThemeTmpPath(1) \in unlinked /\ ThemeTmpPath(1) \notin fs
    /\ ThemeTmpPath(2) \in unlinked /\ ThemeTmpPath(2) \notin fs

\* createWorkFile was called, for a document it has to write out.
CalledForTmpFile == atCall # NoDoc /\ ~(atCall.scheme = "file" /\ ~atCall.isDirty)

\* createWorkFile was called, for a document it can use as it is.
CalledForRealFile == atCall # NoDoc /\ atCall.scheme = "file" /\ ~atCall.isDirty

\* The candidate locations of a document, in the order of the claim.
Candidates(d) ==
    <<"sameDir">>
    \o (IF d.workspace = "file" THEN <<"workspaceDir">> ELSE <<>>)
    \o <<"osTmp">>

PathAt(place) ==
    CASE place = "sameDir" -> SameDirTmpPath
      [] place = "workspaceDir" -> WorkspaceDirTmpPath
      [] place = "osTmp" -> OsTmpPath

CreateWorkFileFailed == DoExportReturned /\ result = "rejected" /\ input = NoWorkFile

\* C8: for a dirty or non-file document createWorkFile tries the directory
\* of the document, then the workspace root (only with a workspace folder
\* of scheme file), then the OS temp directory; it returns the first place
\* whose write succeeds and tries none after it; it fails exactly when every
\* place it tried failed, so a failure at the first two is swallowed.
C8_FallbackOrder ==
    CalledForTmpFile =>
        LET cand == Candidates(atCall)
            n == Len(attempts)
        IN  /\ n <= Len(cand)
            /\ \A k \in 1..n : attempts[k].place = cand[k]
            /\ \A k \in 1..(n - 1) : ~attempts[k].ok
            /\ input # NoWorkFile <=>
                   (n >= 1 /\ attempts[n].ok)
            /\ input # NoWorkFile => input.path = PathAt(attempts[n].place)
            /\ CreateWorkFileFailed <=>
                   (n = Len(cand) /\ \A k \in 1..n : ~attempts[k].ok)
            /\ (n >= 1 /\ ~attempts[n].ok /\ n < Len(cand)) =>
                   pc = (IF cand[n + 1] = "workspaceDir"
                         THEN "writeWorkspaceDir" ELSE "writeOsTmp")

C8_Witness ==
    /\ CalledForTmpFile
    /\ attempts = <<[place |-> "sameDir", ok |-> FALSE],
                    [place |-> "workspaceDir", ok |-> FALSE],
                    [place |-> "osTmp", ok |-> TRUE]>>
    /\ input.path = OsTmpPath

Touched == pendingUnlink \cup unlinked \cup unlinkFailed

\* C9: for a document of scheme file that is not dirty createWorkFile
\* returns the path of the document and writes nothing, and its cleanup
\* does nothing: the file of the document stays, with its content.
C9_RealFileUntouched ==
    CalledForRealFile =>
        /\ input.path = DocPath
        /\ attempts = <<>>
        /\ fs \cap DocTmpPaths = {}
        /\ DocPath \in fs /\ fileText[DocPath] = 0
        /\ DocPath \notin Touched

C9_Witness ==
    /\ CalledForRealFile
    /\ cleanupCalls[InputId] = 1
    /\ DocPath \in fs
    /\ doc.isDirty

\* C10: when createWorkFile succeeds for a dirty or non-file document, the
\* file at the path it returns holds the text the document had at the call;
\* its cleanup deletes that file and no other, and the file is gone after.
C10_TmpFileHoldsTextAndIsDeleted ==
    (CalledForTmpFile /\ input # NoWorkFile) =>
        /\ input.path \in DocTmpPaths
        /\ fs \cap DocTmpPaths \subseteq {input.path}
        /\ input.path \in fs => fileText[input.path] = atCall.text
        /\ cleanupCalls[InputId] = 0 => input.path \in fs
        /\ cleanupCalls[InputId] >= 1 => input.path \in Touched
        /\ Touched \cap (DocTmpPaths \cup {DocPath}) \subseteq {input.path}
        /\ input.path \in unlinked <=> (input.path \notin fs)

C10_Witness ==
    /\ CalledForTmpFile
    /\ input.path = WorkspaceDirTmpPath
    /\ doc.text # atCall.text
    /\ fileText[WorkspaceDirTmpPath] = atCall.text
    /\ WorkspaceDirTmpPath \in unlinked /\ WorkspaceDirTmpPath \notin fs

\* ------------------------------------------- the proxy decision of doExport
\* doExport up to the document WorkFile, for every output extension.
InitDecision ==
    /\ pc = "start"
    /\ \E scheme \in Schemes, isDirty \in BOOLEAN, workspace \in WorkspaceKinds :
         doc = [scheme |-> scheme, isDirty |-> isDirty,
                text |-> IF isDirty THEN 1 ELSE 0, workspace |-> workspace]
    /\ ext \in OutputExts
    /\ themeN \in 0..MaxThemes
    /\ Untouched
    /\ platform = "linux"

NextDecision ==
    \/ DoExportStart
    \/ ProxyCreated
    \/ ProxyFailed
    \/ EditDocument

SpecDecision == InitDecision /\ [][NextDecision]_vars

\* The cases the claim names in which no proxy server is created.
NoProxyCase ==
    \/ ext = "html"
    \/ doc.scheme = "file"
    \/ doc.scheme = "untitled" /\ doc.workspace = "none" /\ ext = "png"

\* C11: doExport creates a proxy server only for an extension that needs the
\* browser, a document that is not a local file and a document that has a
\* workspace folder; for html output, for a document of scheme file and for
\* an untitled document without workspace folder exported to png it creates
\* none, and the export goes on with createWorkFile.
C11_ProxyOnlyWhenNeeded ==
    /\ proxyCalls > 0 =>
           /\ ext \in {"pdf", "pptx", "png", "jpg", "jpeg"}
           /\ doc.scheme # "file"
           /\ doc.workspace # "none"
    /\ proxyServer # 0 => proxyCalls > 0
    /\ (pc # "start" /\ NoProxyCase) =>
           /\ proxyCalls = 0 /\ proxyServer = 0
           /\ atCall # NoDoc

C11_Witness ==
    /\ doc.scheme = "untitled" /\ doc.workspace = "none" /\ ext = "png"
    /\ pc # "start" /\ proxyCalls = 0 /\ atCall # NoDoc

\* ------------------------------------------------- how runMarpCli settles
Settled(c) == cliPc[c] = "settled"

\* C12: a runMarpCli call resolves exactly when the renderer returned exit
\* code 0 without throwing; when the renderer returned an exit code n other
\* than 0 without throwing, the call rejects with a MarpCLIError whose
\* message carries n.
C12_ResolvesIffExitCodeZero ==
    \A c \in Calls :
        /\ cliResult[c].status = "resolved" <=>
               (Settled(c) /\ ~cliOutcome[c].thrown /\ cliOutcome[c].exitCode = 0)
        /\ (Settled(c) /\ ~cliOutcome[c].thrown /\ cliOutcome[c].exitCode # 0) =>
               /\ cliResult[c].status = "rejected"
               /\ cliResult[c].error.class = "MarpCLIError"
               /\ cliResult[c].error.exitCode = cliOutcome[c].exitCode

C12_Witness ==
    \E c \in Calls :
        /\ Settled(c) /\ ~cliOutcome[c].thrown /\ cliOutcome[c].exitCode = 3
        /\ cliResult[c].status = "rejected"
        /\ cliResult[c].error.exitCode = 3

NotFoundChromium(o) ==
    o.thrown /\ o.error.class = "CLIError" /\ o.error.errorCode = "NOT_FOUND_CHROMIUM"

MentionsChromium(e) == e.hint = "Google Chrome or Chromium"

\* C13: when the renderer throws the CLIError NOT_FOUND_CHROMIUM, the call
\* rejects with a MarpCLIError whose installation hint names Chromium
\* exactly on linux; when it throws any other error, the call rejects with
\* that error unchanged; either way the error was given to console.error.
C13_ThrownErrors ==
    \A c \in Calls :
        (Settled(c) /\ cliOutcome[c].thrown) =>
            /\ cliResult[c].status = "rejected"
            /\ <<"cli", c>> \in Range(errLog)
            /\ IF NotFoundChromium(cliOutcome[c])
               THEN /\ cliResult[c].error.class = "MarpCLIError"
                    /\ cliResult[c].error.hint # ""
                    /\ MentionsChromium(cliResult[c].error) <=> platform = "linux"
               ELSE cliResult[c].error = cliOutcome[c].error

C13_Witness ==
    \E c, d \in Calls :
        /\ Settled(c) /\ NotFoundChromium(cliOutcome[c])
        /\ platform = "darwin" /\ ~MentionsChromium(cliResult[c].error)
        /\ Settled(d) /\ cliOutcome[d].thrown /\ cliOutcome[d].error.class = "Error"
        /\ cliResult[d].error = cliOutcome[d].error

\* ----------------------------------------------- a proxy that cannot start
ProxyCreationFailed == "proxyFailed" \in Range(events)

\* C14: when createWorkspaceProxyServer fails, doExport rejects: it creates
\* no WorkFile of the document, builds no config file, never calls the
\* renderer and does not go on without proxy server.
C14_ProxyFailureEndsExport ==
    ProxyCreationFailed =>
        /\ pc = "done" /\ result = "rejected"
        /\ proxyCalls = 1 /\ proxyServer = 0
        /\ atCall = NoDoc /\ attempts = <<>> /\ input = NoWorkFile
        /\ \A i \in Themes : themeSt[i] = "none"
        /\ conf = NoWorkFile /\ confWritten = NoOpts
        /\ fs \cap TmpPaths = {}
        /\ \A c \in Calls : cliPc[c] = "idle" /\ ~invoked[c].called
        /\ Range(events) = {"createProxy", "proxyFailed"}

C14_Witness ==
    /\ ProxyCreationFailed
    /\ pc = "done" /\ result = "rejected"
    /\ shouldProvideWorkspaceProxyServer(ext, doc) /\ doc.workspace # "none"

\* ------------------------------------------- what the renderer is called with
\* C15: the renderer is called with the arguments -c <config path>
\* <input path> -o <output path>, and it is given the base URL
\* http://127.0.0.1:<port of the proxy server><path of the document> exactly
\* when a proxy server was created, none otherwise.
C15_RendererArguments ==
    invoked[1].called =>
        /\ invoked[1].argv = <<Str(Flag("-c")), Str(conf.path), Str(input.path),
                               Str(Flag("-o")), Str(OutputPath)>>
        /\ invoked[1].baseUrl = IF proxyServer # 0
                                THEN [port |-> proxyServer, path |-> DocUriPath]
                                ELSE NoBaseUrl

\* ------------------------------------------------------ the order of steps
\* The place of a step in the order the claim gives; 0 for what doExport
\* does besides.
StepRank(e) ==
    CASE e \in {"createProxy"} -> 1
      [] e \in {"proxyCreated", "proxyFailed"} -> 2
      [] e = "workFile" -> 3
      [] e = "createConfigFile" -> 4
      [] e = "themesSettled" -> 5
      [] e = "confWritten" -> 6
      [] e = "marpCli" -> 7
      [] e = "conf.cleanup" -> 8
      [] e = "input.cleanup" -> 9
      [] e = "dispose" -> 10
      [] OTHER -> 0

\* The steps doExport did were done in the order of their ranks.
Ranked(e) == StepRank(e) > 0

StepsRanked ==
    LET steps == SelectSeq(events, Ranked)
    IN  \A k \in 1..(Len(steps) - 1) : StepRank(steps[k]) < StepRank(steps[k + 1])

ThemesSettled == \A i \in 1..themeN : themeSt[i] \in {"fulfilled", "dropped"}

CleanupStarted ==
    \/ \E w \in WorkFileIds : cleanupCalls[w] > 0
    \/ disposeCalls > 0
    \/ Range(events) \cap {"conf.cleanup", "input.cleanup", "dispose"} # {}

\* C16: the steps of one export follow one another: the proxy server is
\* decided and created before createWorkFile starts, createWorkFile is over
\* before createConfigFile starts, the config file is written only after
\* every theme chain settled, the renderer is called only after the config
\* file is written, no cleanup starts before the renderer call is over, and
\* the cleanups are issued as conf.cleanup, input.cleanup, dispose.
C16_StepsInOrder ==
    LET did == Range(events)
    IN  /\ StepsRanked
        /\ pc = "awaitProxy" => atCall = NoDoc
        /\ (atCall # NoDoc /\ proxyCalls > 0) => proxyServer # 0
        /\ (\E i \in Themes : themeSt[i] # "none") => input # NoWorkFile
        /\ "createConfigFile" \in did => "workFile" \in did
        /\ (pc = "writeConf" \/ ConfPath \in fs \/ conf # NoWorkFile) => ThemesSettled
        /\ "confWritten" \in did => ("themesSettled" \in did /\ ThemesSettled)
        /\ cliPc[1] # "idle" => (conf # NoWorkFile /\ confWritten = cliOpts)
        /\ "marpCli" \in did => "confWritten" \in did
        /\ CleanupStarted => cliPc[1] \in {"idle", "settled"}
        /\ "conf.cleanup" \in did => "marpCli" \in did

C16_Witness ==
    /\ pc = "done" /\ themeN = MaxThemes
    /\ {"proxyCreated", "workFile", "themesSettled", "confWritten", "marpCli",
        "conf.cleanup", "input.cleanup", "dispose"} \subseteq Range(events)

\* ------------------------------------------- what the user gets to see
Count(e) == Cardinality({k \in 1..Len(events) : events[k] = e})

Materialized == input # NoWorkFile

\* C17: an export whose document WorkFile was created ends either with the
\* viewer opened, and then the renderer had resolved with exit code 0, or
\* with one error message shown, and then createConfigFile or the renderer
\* had failed; never with both, never with neither; with the error message
\* doExport does not reject.
C17_ViewerOrOneErrorMessage ==
    /\ (DoExportReturned /\ Materialized) =>
           /\ Count("openExternal") + Count("showErrorMessage") = 1
           /\ result = "resolved"
    /\ Count("openExternal") > 0 =>
           /\ Materialized
           /\ cliResult[1].status = "resolved"
           /\ ~cliOutcome[1].thrown /\ cliOutcome[1].exitCode = 0
    /\ Count("showErrorMessage") > 0 =>
           /\ Materialized
           /\ conf = NoWorkFile \/ cliResult[1].status = "rejected"
    /\ ~DoExportReturned =>
           Count("openExternal") + Count("showErrorMessage") = 0

C17_Witness ==
    /\ DoExportReturned /\ Materialized
    /\ Count("showErrorMessage") = 1 /\ Count("openExternal") = 0
    /\ conf # NoWorkFile /\ cliResult[1].status = "rejected"
    /\ result = "resolved"

\* ---------------------------------------------- a theme that cannot be staged
\* The writeFile of the temporary file of theme i failed, its fetch had
\* succeeded.
StagingFailed(i) == i \in 1..themeN /\ themeSt[i] = "rejected"

\* C18: when the staging of a fetched remote theme fails, that theme alone
\* is dropped: marpCoreOptionForCLI still returns the other themes, the
\* config build does not fail, and no temporary file staged for another
\* theme is left without a WorkFile that createConfigFile returned.
C18_StagingFailureDropsOneTheme ==
    (DoExportReturned /\ Materialized /\ \E f \in Themes : StagingFailed(f)) =>
        /\ cliOpts # NoOpts
        /\ \A i \in 1..themeN :
               themeSt[i] = "fulfilled" => themeFile[i] \in Range(cliOpts.themeFiles)
        /\ \A i \in 1..themeN :
               ThemeTmpPath(i) \in fs \cup unlinked \cup unlinkFailed =>
                   ThemeTmpPath(i) \in Range(cliOpts.themeSet)

\* ------------------------------------------------------- allowLocalFiles
\* The config file createConfigFile wrote for the renderer.
ConfigHandedOver == conf # NoWorkFile

\* What doExport passes as allowLocalFiles at lines 94-96: !proxyServer.
AllowLocalFilesPassed == proxyServer = 0

\* C19: the config file handed to the renderer has allowLocalFiles true
\* exactly when no proxy server was created and false when one is active:
\* the value doExport passes to createConfigFile is the one written.
C19_AllowLocalFilesFollowsProxy ==
    ConfigHandedOver => (confWritten.allowLocalFiles <=> AllowLocalFilesPassed)

\* ------------------------------------------------- themeSet and themeFiles
ConfigProduced == cliOpts # NoOpts

\* The theme a path of a theme WorkFile belongs to.
ThemeOf(p) == p[2]

\* C20: in every config marpCoreOptionForCLI produces, themeSet is the list
\* of the paths of vscode.themeFiles, in the order of the configured themes
\* with the failed ones left out, whatever the order the fetches completed
\* in; so every path of themeSet has a WorkFile whose cleanup is invoked by
\* the cleanup of the config WorkFile.
C20_ThemeSetMatchesThemeFiles ==
    ConfigProduced =>
        LET themeSet == cliOpts.themeSet
            themeFiles == cliOpts.themeFiles
        IN  /\ Len(themeSet) = Len(themeFiles)
            /\ \A k \in 1..Len(themeSet) :
                   /\ themeSet[k] = themeFiles[k].path
                   /\ themeFiles[k] = themeFile[ThemeOf(themeSet[k])]
            /\ \A k \in 1..(Len(themeSet) - 1) :
                   ThemeOf(themeSet[k]) < ThemeOf(themeSet[k + 1])
            /\ {ThemeOf(themeSet[k]) : k \in 1..Len(themeSet)}
                   = (1..themeN) \ fetchFailed
            /\ cleanupCalls[ConfId] > 0 =>
                   \A k \in 1..Len(themeSet) :
                       /\ cleanupCalls[ThemeId(ThemeOf(themeSet[k]))] = 1
                       /\ themeFiles[k].cleanup # NoPath =>
                              themeSet[k] \in pendingUnlink \cup unlinked
                                              \cup unlinkFailed

C20_Witness ==
    /\ ConfigProduced /\ outOfOrder
    /\ themeN = MaxThemes /\ fetchFailed = {}
    /\ Len(cliOpts.themeSet) = MaxThemes
    /\ cliOpts.themeSet[1] = ThemeTmpPath(1)
    /\ cleanupCalls[ConfId] = 1

\* --------------------------------------------- the cache of preview options
CalledSinceClear == previewReturned # <<>>

\* C21: marpCoreOptionForPreview computes the options only when the cache
\* is empty: the first call after clearMarpCoreOptionCache, or the first
\* call ever, computes them from the settings and the baseOption of that
\* call, and every later call up to the next clearMarpCoreOptionCache
\* returns that same value, whatever the settings and the baseOption have
\* become.
C21_PreviewOptionsCached ==
    /\ cachedPreviewOption = NoOption <=> ~CalledSinceClear
    /\ CalledSinceClear =>
           /\ computedFrom.given
           /\ cachedPreviewOption =
                  PreviewOption(computedFrom.configuration, computedFrom.breaks)
           /\ \A k \in 1..Len(previewReturned) :
                  previewReturned[k] = cachedPreviewOption

C21_Witness ==
    /\ beforeClear # NoOption
    /\ Len(previewReturned) >= 2
    /\ previewReturned[1] # beforeClear
    /\ previewReturned[1] =
           PreviewOption(computedFrom.configuration, computedFrom.breaks)
    /\ lastInputs # computedFrom
    /\ previewReturned[2] #
           PreviewOption(lastInputs.configuration, lastInputs.breaks)

====
